---- MODULE Spec2Model ----
(***************************************************************************)
(* FlagmanDistributor (src/main.py): priority-proportional allocation of   *)
(* a headcount over seven areas, cyclic equipment assignment over a         *)
(* shuffled catalog, and the report built from both.                        *)
(*                                                                          *)
(* distribute_personnel is modelled statement by statement (one action per  *)
(* loop iteration) so that its intermediate states are visible;             *)
(* get_equipment_assignments is one action per call, the outcome of         *)
(* random.shuffle being a nondeterministic choice of a permutation.         *)
(***************************************************************************)
EXTENDS Integers, Sequences, FiniteSets, TLC

VARIABLES
    pc,               \* position in the running call ("idle" before, "done" after)
    op,               \* the entry point called: "distribute", "report", "equipment"
    total_personnel,  \* argument of distribute_personnel / generate_report
    distribution,     \* the dict built by distribute_personnel (area -> count)
    dist_result,      \* what distribute_personnel returned: "unset", "None", "distribution"
    allocated,        \* local of distribute_personnel
    remaining,        \* local of distribute_personnel
    order,            \* the list the current for loop iterates (sorted(areas, ...))
    i,                \* index of the current for loop (1-based)
    area,             \* argument of the last get_equipment_assignments call
    count,            \* argument of the last get_equipment_assignments call
    equipment_list,   \* local of get_equipment_assignments (after the shuffle)
    shuffled,         \* whether the last call invoked random.shuffle
    assignments,      \* value returned by the last get_equipment_assignments call
    calls,            \* number of get_equipment_assignments calls made so far
    report,           \* the report's area lines built so far
    report_result     \* what generate_report returned: "unset", "min_message", "report", "raised"

vars == <<pc, op, total_personnel, distribution, dist_result, allocated, remaining,
          order, i, area, count, equipment_list, shuffled, assignments, calls,
          report, report_result>>

-----------------------------------------------------------------------------
(* Bounds of the model *)

\* largest headcount passed directly to distribute_personnel
MaxTotal == 300
\* largest headcount passed to generate_report
MaxReport == 40
\* headcounts start at -MaxBelow (zero and negatives are inputs too)
MaxBelow == 2
\* largest count passed directly to get_equipment_assignments
MaxCount == 23
\* random.shuffle: the first ShuffleDepth positions of the result are chosen
\* freely among the catalog's items, the others keep catalog order
ShuffleDepth == 2

-----------------------------------------------------------------------------
(* Configuration: __init__ *)

Supervisors == "Supervisors"
Store == "Store"

\* keys of self.area_priorities in insertion order
AreaOrder ==
    <<"GIS + MB", "Chiller Area", "SSD", "Gate", "NCC Office", "Store", "Supervisors">>

Areas == {AreaOrder[k] : k \in 1..Len(AreaOrder)}

area_priorities ==
    [a \in Areas |->
        CASE a = "GIS + MB" -> 8
          [] a = "Chiller Area" -> 6
          [] a = "SSD" -> 5
          [] a = "Gate" -> 4
          [] a = "NCC Office" -> 4
          [] a = "Store" -> 2
          [] a = "Supervisors" -> 1]

equipment_pools ==
    [a \in Areas |->
        CASE a = "GIS + MB" ->
               <<"Cocklain", "Bobcut", "JCB", "Compactor", "Excavator", "Hydra",
                 "Mini Roller", "Trailer", "Tough Rider", "Roller", "DCM">>
          [] a = "Chiller Area" ->
               <<"JCB", "Roller", "Compactor", "Tough Rider", "Bobcut", "DCM",
                 "Excavator", "Hydra", "Mini Roller">>
          [] a = "SSD" ->
               <<"Hydra", "JCB", "Cocklain", "Unicrane", "Excavator", "Main Lift",
                 "Compactor">>
          [] a = "Gate" ->
               <<"Trailer", "Tough Rider", "Excavator", "Roller", "JCB", "Hydra",
                 "Compactor">>
          [] a = "NCC Office" ->
               <<"Hydra", "Main Lift", "Bobcut", "Compactor", "JCB", "Cocklain",
                 "Roller">>
          [] a = "Store" -> <<"Assigned">>
          [] a = "Supervisors" -> <<"General Area">>]

\* the area order generate_report iterates
PresentationOrder ==
    <<"GIS + MB", "Chiller Area", "SSD", "Gate", "NCC Office", "Store", "Supervisors">>

-----------------------------------------------------------------------------
(* Helpers *)

Max(a, b) == IF a >= b THEN a ELSE b

Min(a, b) == IF a <= b THEN a ELSE b

Range(s) == {s[k] : k \in DOMAIN s}

RECURSIVE SumSeq(_, _)
\* sum(f[s[1]], ..., f[s[Len(s)]])
SumSeq(s, f) == IF s = <<>> THEN 0 ELSE f[Head(s)] + SumSeq(Tail(s), f)

\* dict assignment d[k] = v (the key is added when absent)
DictSet(d, k, v) == [x \in (DOMAIN d) \cup {k} |-> IF x = k THEN v ELSE d[x]]

\* sum(self.area_priorities.values()): every area, Supervisors included
total_priority == SumSeq(AreaOrder, area_priorities)

\* list(self.area_priorities.keys())[:-1]
areas == SubSeq(AreaOrder, 1, Len(AreaOrder) - 1)

\* variant: the comparison written <= instead of <
InsufficientInclusive(total) == total <= 7

\* total_personnel < 7
Insufficient(total) == total < 7

\* variant: round() instead of int()
BaseCountRound(priority, total) ==
    Max(1, (2 * priority * (total - 1) + total_priority) \div (2 * total_priority))

\* variant: the max(1, ...) left out
BaseCountNoFloor(priority, total) == (priority * (total - 1)) \div total_priority

\* max(1, int((priority / total_priority) * (total_personnel - 1))).
\* The product is computed in double precision; for the configured weights it
\* truncates to floor(priority * (total - 1) / total_priority) on every
\* headcount from 7 to 2000, which is the value used here.
BaseCount(priority, total) ==
    Max(1, (priority * (total - 1)) \div total_priority)

\* variant: the supervisor subtracted a second time
RemainingTwice(total, alloc) == total - alloc - 1

\* remaining = total_personnel - allocated
Remaining(total, alloc) == total - alloc

RECURSIVE InsertByPriority(_, _, _)
\* x placed after every element of the sorted list s that does not sort after it
InsertByPriority(x, s, reverse) ==
    IF s = <<>> THEN <<x>>
    ELSE LET h == Head(s)
             before == IF reverse
                       THEN area_priorities[h] >= area_priorities[x]
                       ELSE area_priorities[h] <= area_priorities[x]
         IN  IF before THEN <<h>> \o InsertByPriority(x, Tail(s), reverse)
             ELSE <<x>> \o s

RECURSIVE SortedFrom(_, _, _)
SortedFrom(s, acc, reverse) ==
    IF s = <<>> THEN acc
    ELSE SortedFrom(Tail(s), InsertByPriority(Head(s), acc, reverse), reverse)

\* variant: reverse=True forgotten
SortedAscending(s, reverse) == SortedFrom(s, <<>>, FALSE)

\* sorted(s, key=lambda x: self.area_priorities[x], reverse=reverse): stable
Sorted(s, reverse) == SortedFrom(s, <<>>, reverse)

-----------------------------------------------------------------------------
(* get_equipment_assignments *)

\* an entry of the returned list: the f-string '{name} x{times}', or the bare
\* name when times = 0
Label(name, times) == [name |-> name, times |-> times]

\* the permutations random.shuffle may leave in the list (see ShuffleDepth)
Shuffles(pool) ==
    LET L == Len(pool)
        d == Min(ShuffleDepth, L)
        prefixes == {p \in [1..d -> 1..L] : \A x, y \in 1..d : x # y => p[x] # p[y]}
        Rest(p) == SelectSeq([k \in 1..L |-> k], LAMBDA k : k \notin Range(p))
    IN  {[k \in 1..L |-> pool[(p \o Rest(p))[k]]] : p \in prefixes}

RECURSIVE Tally(_, _, _, _)
\* the loop `for i in range(count)` from iteration k on; acc is equipment_counts
\* as the list of its items in insertion order
Tally(list, n, k, acc) ==
    IF k >= n THEN acc
    ELSE LET equipment == list[(k % Len(list)) + 1]
             at == {j \in DOMAIN acc : acc[j].equipment = equipment}
         IN  IF at = {}
             THEN Tally(list, n, k + 1,
                        Append(acc, [equipment |-> equipment, eq_count |-> 1]))
             ELSE Tally(list, n, k + 1,
                        [j \in DOMAIN acc |->
                            IF j \in at
                            THEN [acc[j] EXCEPT !.eq_count = @ + 1]
                            ELSE acc[j]])

\* variant: range(count - 1)
EquipmentCountsShort(list, n) == Tally(list, n - 1, 0, <<>>)

\* equipment_counts after the loop `for i in range(count)`
EquipmentCounts(list, n) == Tally(list, n, 0, <<>>)

\* variant: the suffix written whatever eq_count is
FormatAssignmentsAlways(counts) ==
    [k \in DOMAIN counts |-> Label(counts[k].equipment, counts[k].eq_count)]

\* the loop over equipment_counts.items()
FormatAssignments(counts) ==
    [k \in DOMAIN counts |->
        IF counts[k].eq_count > 1
        THEN Label(counts[k].equipment, counts[k].eq_count)
        ELSE Label(counts[k].equipment, 0)]

\* variant: the suffix written whatever count is
StoreAssignmentsAlways(n) == <<Label("Assigned", n)>>

\* [f'Assigned x{count}'] if count > 1 else ['Assigned']
StoreAssignments(n) ==
    IF n > 1 THEN <<Label("Assigned", n)>> ELSE <<Label("Assigned", 0)>>

\* the whole call, sh being what random.shuffle leaves in equipment_list
GetEquipmentAssignments(a, n, sh) ==
    IF a = Supervisors
    THEN [assignments |-> <<Label("General Area", 0)>>,
          equipment_list |-> <<>>, shuffled |-> FALSE]
    ELSE IF a = Store
    THEN [assignments |-> StoreAssignments(n),
          equipment_list |-> equipment_pools[a], shuffled |-> FALSE]
    ELSE [assignments |-> FormatAssignments(EquipmentCounts(sh, n)),
          equipment_list |-> sh, shuffled |-> TRUE]

-----------------------------------------------------------------------------
(* State machine *)

Totals == (0 - MaxBelow)..MaxTotal

ReportTotals == (0 - MaxBelow)..MaxReport

Init ==
    /\ pc = "idle"
    /\ op = "none"
    /\ total_personnel = 0
    /\ distribution = <<>>
    /\ dist_result = "unset"
    /\ allocated = 0
    /\ remaining = 0
    /\ order = <<>>
    /\ i = 0
    /\ area = "none"
    /\ count = 0
    /\ equipment_list = <<>>
    /\ shuffled = FALSE
    /\ assignments = <<>>
    /\ calls = 0
    /\ report = <<>>
    /\ report_result = "unset"

equipVars == <<area, count, equipment_list, shuffled, assignments, calls>>
reportVars == <<report, report_result>>
distVars == <<distribution, dist_result, allocated, remaining, order, i>>

\* a direct call distribute_personnel(total)
CallDistribute ==
    /\ pc = "idle"
    /\ \E total \in Totals : total_personnel' = total
    /\ op' = "distribute"
    /\ pc' = "dp_check"
    /\ UNCHANGED <<distVars, equipVars, reportVars>>

\* a call generate_report(total): its first statement calls distribute_personnel
CallGenerateReport ==
    /\ pc = "idle"
    /\ \E total \in ReportTotals : total_personnel' = total
    /\ op' = "report"
    /\ pc' = "dp_check"
    /\ UNCHANGED <<distVars, equipVars, reportVars>>

\* where distribute_personnel returns to
ReturnTo == IF op = "report" THEN "gr_check" ELSE "done"

\* `if total_personnel < 7: return None`, else the initialisations before the loop
DpCheck ==
    /\ pc = "dp_check"
    /\ IF Insufficient(total_personnel)
       THEN /\ dist_result' = "None"
            /\ pc' = ReturnTo
            /\ UNCHANGED <<distribution, allocated, order, i>>
       ELSE /\ distribution' = <<>>
            /\ allocated' = 0
            /\ order' = AreaOrder
            /\ i' = 1
            /\ pc' = "first_pass"
            /\ UNCHANGED dist_result
    /\ UNCHANGED <<op, total_personnel, remaining, equipVars, reportVars>>

\* one iteration of the first pass over self.area_priorities.items()
FirstPass ==
    /\ pc = "first_pass"
    /\ LET a == order[i]
           c == BaseCount(area_priorities[a], total_personnel)
       IN  IF a = Supervisors
           THEN UNCHANGED <<distribution, allocated>>
           ELSE /\ distribution' = DictSet(distribution, a, c)
                /\ allocated' = allocated + c
    /\ i' = i + 1
    /\ pc' = IF i + 1 > Len(order) THEN "supervisor" ELSE "first_pass"
    /\ UNCHANGED <<op, total_personnel, dist_result, remaining, order,
                   equipVars, reportVars>>

\* distribution['Supervisors'] = 1; allocated += 1; remaining = ...
SetSupervisor ==
    /\ pc = "supervisor"
    /\ distribution' = DictSet(distribution, Supervisors, 1)
    /\ allocated' = allocated + 1
    /\ remaining' = Remaining(total_personnel, allocated + 1)
    /\ pc' = "while_pos"
    /\ UNCHANGED <<op, total_personnel, dist_result, order, i, equipVars, reportVars>>

\* the test of `while remaining > 0`
WhilePos ==
    /\ pc = "while_pos"
    /\ IF remaining > 0
       THEN /\ order' = Sorted(areas, TRUE)
            /\ i' = 1
            /\ pc' = "sweep_pos"
       ELSE /\ pc' = "while_neg"
            /\ UNCHANGED <<order, i>>
    /\ UNCHANGED <<op, total_personnel, distribution, dist_result, allocated,
                   remaining, equipVars, reportVars>>

\* one iteration of the for loop inside either while loop
SweepStep ==
    /\ pc \in {"sweep_pos", "sweep_neg"}
    /\ LET a == order[i]
       IN  IF pc = "sweep_pos"
           THEN IF remaining > 0
                THEN /\ distribution' = [distribution EXCEPT ![a] = @ + 1]
                     /\ remaining' = remaining - 1
                ELSE UNCHANGED <<distribution, remaining>>
           ELSE IF distribution[a] > 1 /\ remaining < 0
                THEN /\ distribution' = [distribution EXCEPT ![a] = @ - 1]
                     /\ remaining' = remaining + 1
                ELSE UNCHANGED <<distribution, remaining>>
    /\ i' = i + 1
    /\ pc' = IF i + 1 > Len(order)
             THEN (IF pc = "sweep_pos" THEN "while_pos" ELSE "while_neg")
             ELSE pc
    /\ UNCHANGED <<op, total_personnel, dist_result, allocated, order,
                   equipVars, reportVars>>

\* the test of `while remaining < 0`, and `return distribution` when it fails
WhileNeg ==
    /\ pc = "while_neg"
    /\ IF remaining < 0
       THEN /\ order' = Sorted(areas, FALSE)
            /\ i' = 1
            /\ pc' = "sweep_neg"
            /\ UNCHANGED dist_result
       ELSE /\ dist_result' = "distribution"
            /\ pc' = ReturnTo
            /\ UNCHANGED <<order, i>>
    /\ UNCHANGED <<op, total_personnel, distribution, allocated, remaining,
                   equipVars, reportVars>>

\* `not distribution`: None or an empty dict
Falsy == dist_result = "None" \/ DOMAIN distribution = {}

\* `if not distribution: return <message>`, else the header of the report;
\* distribution['Supervisors'] on None raises TypeError
ReportCheck ==
    /\ pc = "gr_check"
    /\ IF Falsy
       THEN /\ report_result' = "min_message"
            /\ pc' = "done"
            /\ UNCHANGED <<report, i, order>>
       ELSE IF dist_result = "None"
       THEN /\ report_result' = "raised"
            /\ pc' = "done"
            /\ UNCHANGED <<report, i, order>>
       ELSE /\ report' = <<>>
            /\ order' = PresentationOrder
            /\ i' = 1
            /\ pc' = "gr_loop"
            /\ UNCHANGED report_result
    /\ UNCHANGED <<op, total_personnel, distribution, dist_result, allocated,
                   remaining, equipVars>>

\* the first half of one iteration of the loop over the areas:
\* count = distribution[area]; assignments = self.get_equipment_assignments(area, count)
ReportCall ==
    /\ pc = "gr_loop"
    /\ LET a == order[i]
           c == distribution[a]
       IN  \E sh \in Shuffles(equipment_pools[a]) :
              LET r == GetEquipmentAssignments(a, c, sh)
              IN  /\ area' = a
                  /\ count' = c
                  /\ equipment_list' = r.equipment_list
                  /\ shuffled' = r.shuffled
                  /\ assignments' = r.assignments
    /\ calls' = calls + 1
    /\ pc' = "gr_append"
    /\ UNCHANGED <<op, total_personnel, distVars, reportVars>>

\* the second half: the labels are joined and the line is added to the report
\* (kept as the area, its count and the number of labels joined); the
\* iteration's locals are dead from here on and go back to their initial values
ReportAppend ==
    /\ pc = "gr_append"
    /\ report' = Append(report,
                    [area |-> area, count |-> count, labels |-> Len(assignments)])
    /\ area' = "none"
    /\ count' = 0
    /\ equipment_list' = <<>>
    /\ shuffled' = FALSE
    /\ assignments' = <<>>
    /\ i' = i + 1
    /\ pc' = IF i + 1 > Len(order) THEN "gr_finish" ELSE "gr_loop"
    /\ UNCHANGED <<op, total_personnel, distribution, dist_result, allocated,
                   remaining, order, calls, report_result>>

\* the summary line and `return report`
ReportFinish ==
    /\ pc = "gr_finish"
    /\ report_result' = "report"
    /\ pc' = "done"
    /\ UNCHANGED <<op, total_personnel, distVars, equipVars, report>>

\* a direct call get_equipment_assignments(a, n)
CallEquipment ==
    /\ pc = "idle"
    /\ \E a \in Areas, n \in 1..MaxCount :
         \E sh \in Shuffles(equipment_pools[a]) :
            LET r == GetEquipmentAssignments(a, n, sh)
            IN  /\ area' = a
                /\ count' = n
                /\ equipment_list' = r.equipment_list
                /\ shuffled' = r.shuffled
                /\ assignments' = r.assignments
    /\ calls' = calls + 1
    /\ op' = "equipment"
    /\ pc' = "done"
    /\ UNCHANGED <<total_personnel, distVars, reportVars>>

Next ==
    \/ CallDistribute
    \/ CallGenerateReport
    \/ DpCheck
    \/ FirstPass
    \/ SetSupervisor
    \/ WhilePos
    \/ SweepStep
    \/ WhileNeg
    \/ ReportCheck
    \/ ReportCall
    \/ ReportAppend
    \/ ReportFinish
    \/ CallEquipment

Spec == Init /\ [][Next]_vars

\* the steps of distribute_personnel alone
NextDistribute ==
    \/ CallDistribute
    \/ DpCheck
    \/ FirstPass
    \/ SetSupervisor
    \/ WhilePos
    \/ SweepStep
    \/ WhileNeg

\* a started call keeps running: the engine is synchronous and single-threaded
FairSpec == Init /\ [][NextDistribute]_vars /\ WF_vars(NextDistribute)

-----------------------------------------------------------------------------
(* Properties *)

NonSupervisor == Areas \ {Supervisors}

\* distribute_personnel has returned a dict
Returned == dist_result = "distribution"

\* the base pass is over and distribution holds every area
AfterBasePass ==
    \/ pc \in {"while_pos", "sweep_pos", "while_neg", "sweep_neg"}
    \/ Returned

\* get_equipment_assignments(area, count) has just returned assignments
EquipmentReturned == pc = "gr_append" \/ (pc = "done" /\ op = "equipment")

\* how many workers an entry stands for: 1 for a bare name, K for 'name xK'
Occurrences(label) == IF label.times = 0 THEN 1 ELSE label.times

RECURSIVE SumOccurrences(_)
SumOccurrences(s) ==
    IF s = <<>> THEN 0 ELSE Occurrences(Head(s)) + SumOccurrences(Tail(s))

\* C1: for every total in [7, 200] the counts of the returned distribution
\* (six areas plus Supervisors) sum to total exactly.
C1_SumEqualsTotal ==
    (Returned /\ total_personnel \in 7..200) =>
        /\ DOMAIN distribution = Areas
        /\ SumSeq(AreaOrder, distribution) = total_personnel

C1_Witness ==
    /\ Returned
    /\ pc = "done"
    /\ total_personnel = 200
    /\ SumSeq(AreaOrder, distribution) = 200

\* C2: in every state of distribute_personnel from the base pass on (each
\* area as soon as it is set, after each surplus increment, after each
\* removal, and in the returned dict) every non-supervisor count is >= 1 and
\* the Supervisors count is exactly 1.
C2_CountsAtLeastOne ==
    /\ \A a \in DOMAIN distribution :
          IF a = Supervisors THEN distribution[a] = 1 ELSE distribution[a] >= 1
    /\ AfterBasePass => DOMAIN distribution = Areas

C2_Witness ==
    /\ pc = "sweep_pos"
    /\ total_personnel = 8
    /\ distribution["GIS + MB"] = 2
    /\ distribution["Store"] = 1
    /\ distribution[Supervisors] = 1

\* C3: for every total < 7 distribute_personnel returns None and
\* generate_report returns the minimum-headcount message, raises nothing and
\* calls get_equipment_assignments not once; for every total >= 7 a
\* distribution is returned and the report is not that message.
C3_InsufficientOutcome ==
    /\ dist_result # "unset" => (dist_result = "None" <=> total_personnel < 7)
    /\ (pc = "done" /\ op \in {"distribute", "report"}) => dist_result # "unset"
    /\ (pc = "done" /\ op = "report") =>
          report_result = (IF total_personnel < 7 THEN "min_message" ELSE "report")
    /\ (op = "report" /\ total_personnel < 7) => calls = 0
    /\ report_result # "raised"

C3_Witness ==
    /\ pc = "done"
    /\ op = "report"
    /\ total_personnel = 6
    /\ report_result = "min_message"
    /\ dist_result = "None"
    /\ calls = 0

\* C4: distribute_personnel(total) terminates for every total, those above
\* 200 included, and for total >= 7 it leaves both loops with remaining = 0.
C4_Terminates ==
    <>(/\ pc = "done"
       /\ total_personnel >= 7 => (Returned /\ remaining = 0))

C4_Witness ==
    /\ pc = "done"
    /\ total_personnel = 300
    /\ Returned
    /\ remaining = 0

\* C5 as stated: for every area, Supervisors and Store included, and every
\* count >= 1 the occurrences of the returned entries sum to count.
C5_OccurrencesSumToCount ==
    EquipmentReturned => SumOccurrences(assignments) = count

\* C5 as amended: for every area but Supervisors and every count >= 1 the
\* occurrences of the returned entries sum to count; for Supervisors the one
\* bare entry counts 1 whatever count is.
C5_OccurrencesSumExceptSupervisors ==
    EquipmentReturned =>
        SumOccurrences(assignments) = (IF area = Supervisors THEN 1 ELSE count)

C5_Witness ==
    /\ EquipmentReturned
    /\ area = "GIS + MB"
    /\ count = 23
    /\ shuffled
    /\ SumOccurrences(assignments) = 23

\* C6: Supervisors yields the one fixed bare label for every count, Store
\* yields the bare label 'Assigned' for count 1 and one entry 'Assigned xN'
\* for count N > 1, and neither call shuffles.
C6_Sentinels ==
    EquipmentReturned =>
        /\ area = Supervisors =>
              (assignments = <<Label("General Area", 0)>> /\ ~shuffled)
        /\ area = Store =>
              /\ ~shuffled
              /\ Len(assignments) = 1
              /\ assignments[1].name = "Assigned"
              /\ assignments[1].times = (IF count = 1 THEN 0 ELSE count)

C6_Witness ==
    /\ EquipmentReturned
    /\ area = Store
    /\ count = 5
    /\ assignments = <<Label("Assigned", 5)>>

\* sum of the priority weights of the non-supervisor areas
NonSupervisorWeight == SumSeq(areas, area_priorities)

\* C7: at the end of the first pass every non-supervisor area with weight w
\* holds max(1, floor(w * (total - 1) / W)), W being the sum of the
\* non-supervisor weights (29).
C7_BaseOverNonSupervisorWeight ==
    pc = "supervisor" =>
        /\ NonSupervisorWeight = 29
        /\ \A a \in NonSupervisor :
              distribution[a] =
                 Max(1, (area_priorities[a] * (total_personnel - 1))
                           \div NonSupervisorWeight)

\* the order of the surplus sweep: descending priority, ties in catalog order
DescendingOrder ==
    <<"GIS + MB", "Chiller Area", "SSD", "Gate", "NCC Office", "Store">>

\* the surplus R left by the base pass
Surplus ==
    total_personnel
      - (SumSeq(areas, [a \in NonSupervisor |->
                          BaseCount(area_priorities[a], total_personnel)]) + 1)

\* C8: the surplus goes round robin over the non-supervisor areas in
\* descending priority order, ties in catalog order: after g units the k-th
\* area of that order holds floor(g/6) extra units plus one more when
\* k <= g mod 6 (so no area is served before an earlier one that has fewer),
\* all R units are handed out at the end, and Supervisors stays at 1.
C8_SurplusRoundRobin ==
    AfterBasePass =>
        LET given == Surplus - remaining
            n == Len(DescendingOrder)
        IN  /\ \A k \in 1..n :
                  LET a == DescendingOrder[k]
                  IN  distribution[a]
                        - BaseCount(area_priorities[a], total_personnel)
                      = (given \div n) + (IF k <= given % n THEN 1 ELSE 0)
            /\ distribution[Supervisors] = 1
            /\ Returned => given = Surplus

C8_Witness ==
    /\ Returned
    /\ total_personnel = 200
    /\ Surplus = 9
    /\ distribution["GIS + MB"] = 55
    /\ distribution["SSD"] = 35
    /\ distribution["Gate"] = 27
    /\ distribution["Store"] = 14

\* C9: for a catalog area of length L and a count n, whatever the shuffle
\* left: min(n, L) entries, the k-th naming the k-th shuffled item, its
\* occurrence floor(n/L) plus one when k <= n mod L, the names pairwise
\* distinct items of the catalog, and a suffix exactly when the occurrence
\* exceeds 1.
C9_CyclicAssignment ==
    (EquipmentReturned /\ area \notin {Supervisors, Store}) =>
        LET pool == equipment_pools[area]
            L == Len(pool)
        IN  /\ shuffled
            /\ Len(equipment_list) = L
            /\ Range(equipment_list) = Range(pool)
            /\ Len(assignments) = Min(count, L)
            /\ \A k \in DOMAIN assignments :
                  LET occ == (count \div L) + (IF k <= count % L THEN 1 ELSE 0)
                  IN  /\ assignments[k].name = equipment_list[k]
                      /\ Occurrences(assignments[k]) = occ
                      /\ assignments[k].times # 0 <=> occ > 1
            /\ \A j, k \in DOMAIN assignments :
                  j # k => assignments[j].name # assignments[k].name

C9_Witness ==
    /\ EquipmentReturned
    /\ area = "GIS + MB"
    /\ count = 23
    /\ equipment_list[1] = "DCM"
    /\ equipment_list[2] = "Cocklain"
    /\ assignments[1] = Label("DCM", 3)
    /\ assignments[2] = Label("Cocklain", 2)
    /\ Len(assignments) = 11

\* C10: with the configured weights remaining is never negative, the
\* removal loop's body is never entered, and no state has remaining < 0 with
\* every non-supervisor count at 1.
C10_NeverOverAllocated ==
    /\ remaining >= 0
    /\ pc # "sweep_neg"
    /\ ~(/\ AfterBasePass
         /\ remaining < 0
         /\ \A a \in NonSupervisor : distribution[a] = 1)

C10_Witness ==
    /\ pc = "while_neg"
    /\ total_personnel = 7
    /\ remaining = 0
    /\ \A a \in NonSupervisor : distribution[a] = 1

====
